---- MODULE Spec2Model ----
(***************************************************************************)
(* Model of the shiksha-reports synchronisation core:                      *)
(*   - CronJobService (scheduled pull of course / question-set data),      *)
(*   - KafkaConsumerService (message callback and event routing),          *)
(*   - ProjectHandler (project creation and project-sync task tracking).   *)
(***************************************************************************)
EXTENDS Integers, Sequences, FiniteSets

(***************************************************************************)
(* Bounds of the model.                                                    *)
(***************************************************************************)
\* concurrent invocations of executeCronJob / triggerManualExecution
MaxInvocations == 2
\* cap on jobStatus.totalExecutions
MaxExecutions == 2
\* longest collection a fetch returns
MaxItems == 2
\* latest instant the wall clock reaches
MaxTime == 1

Invocations == 1..MaxInvocations

CourseIds == {"c1"}
QuestionSetIds == {"q1"}

\* what happens to one fetched item: transform and save succeed, the
\* transform raises, or the save raises
Fates == {"ok", "transformFails", "saveFails"}

\* `undefined` of an optional Date field / of lastError
NoDate == -1
NoError == "undefined"

VARIABLES
    jobStatus,      \* CronJobService.jobStatus
    now,            \* the wall clock read by new Date()
    pc,             \* per invocation: where it is suspended
    dataLength,     \* per invocation: apiResponse.data.length of the running sub-pull
    idx,            \* per invocation: position of the for-of loop
    totalProcessed, \* per invocation: local counter of the running sub-pull
    itemErrors,     \* per invocation: passes of the loop that ended in its catch
    lastCall,       \* how the latest call of executeCronJob to settle ended
    subPull,        \* what the sub-pulls of the latest run returned
    courseTable,    \* rows of the Course repository
    questionSetTable, \* rows of the QuestionSet repository
    lastMessage,    \* the message the consumer callback was last called with
    service,        \* which KafkaConsumerService runs: part_001's or the earlier one
    callback,       \* how that callback ended: it returned, or it raised
    dispatch,       \* the handler operations invoked for that message
    warnings,       \* logger.warn calls made for that message
    errorsLogged,   \* logger.error calls made for that message
    poisoned,       \* an earlier message was empty, unparsable or failed
    trackingStore,  \* number of ProjectTaskTracking rows per natural key
    lastSync,       \* how the latest call of a handler of ProjectHandler ended
    projectTable,   \* ProjectIds that have a Project row
    projectTaskTable, \* ProjectIds whose ProjectTask rows are written
    health,         \* how the latest healthCheck call ended
    snapshot        \* the object a caller got from its latest getJobStatus call

jobVars == <<jobStatus, now, pc, dataLength, idx, totalProcessed, itemErrors,
             lastCall, subPull, courseTable, questionSetTable>>

routerVars == <<lastMessage, service, callback, dispatch, warnings,
                errorsLogged, poisoned>>

projectVars == <<trackingStore, lastSync, projectTable, projectTaskTable>>

healthVars == <<health, snapshot>>

vars == <<jobVars, routerVars, projectVars, healthVars>>

(***************************************************************************)
(* CronJobService                                                          *)
(***************************************************************************)

\* private jobStatus: CronJobStatus = { isRunning: false, ... 0, 0, 0 }
InitialJobStatus ==
    [isRunning |-> FALSE, totalExecutions |-> 0, successfulExecutions |-> 0,
     failedExecutions |-> 0, lastExecution |-> NoDate, lastSuccess |-> NoDate,
     lastError |-> NoError]

\* a sub-pull ends: return { totalProcessed, duration }, or throw error
NotRun == [state |-> "notRun", totalProcessed |-> 0]
Returned(n) == [state |-> "returned", totalProcessed |-> n]
Raised == [state |-> "raised", totalProcessed |-> 0]
NoSubPull == [course |-> NotRun, questionSet |-> NotRun]

\* the positions at which an invocation is inside the try block of the job
BodyPcs == {"courseFetch", "courseItems", "questionSetFetch", "questionSetItems"}

\* what an awaited fetch can produce: it raises, or it returns a response;
\* of a collection the response fixes the length here, and each item is drawn
\* when the loop reaches it
FetchOutcomes ==
    {[kind |-> "raises", length |-> 0],
     [kind |-> "notSuccess", length |-> 0],
     [kind |-> "noData", length |-> 0],
     [kind |-> "empty", length |-> 0]}
    \cup {[kind |-> "data", length |-> n] : n \in 1..MaxItems}

\* !apiResponse.success || !apiResponse.data || apiResponse.data.length === 0
NothingToDo(resp) == resp.kind \in {"notSuccess", "noData", "empty"}

\* JobStarted without totalExecutions++
JobStartedUncounted(js, t) ==
    [js EXCEPT !.isRunning = TRUE, !.lastExecution = t]

\* this.jobStatus.isRunning = true; lastExecution = new Date(); totalExecutions++
JobStarted(js, t) ==
    [js EXCEPT !.isRunning = TRUE, !.lastExecution = t,
               !.totalExecutions = @ + 1]

\* JobSucceeded with lastError left as it was
JobSucceededKeepsError(js, t) ==
    [js EXCEPT !.lastSuccess = t, !.successfulExecutions = @ + 1,
               !.isRunning = FALSE]

\* JobSucceeded with lastSuccess left as it was
JobSucceededNoDate(js, t) ==
    [js EXCEPT !.successfulExecutions = @ + 1, !.lastError = NoError,
               !.isRunning = FALSE]

\* end of the try block, then the finally block
JobSucceeded(js, t) ==
    [js EXCEPT !.lastSuccess = t, !.successfulExecutions = @ + 1,
               !.lastError = NoError, !.isRunning = FALSE]

\* JobFailed with lastError left as it was
JobFailedNoMessage(js, message) ==
    [js EXCEPT !.failedExecutions = @ + 1, !.isRunning = FALSE]

\* JobFailed without the finally block
JobFailedNoFinally(js, message) ==
    [js EXCEPT !.failedExecutions = @ + 1, !.lastError = message]

\* the catch block, then the finally block
JobFailed(js, message) ==
    [js EXCEPT !.failedExecutions = @ + 1, !.lastError = message,
               !.isRunning = FALSE]

\* AlreadyRunning with the check left out
AlreadyRunningUnchecked == FALSE

\* the check at the head of executeCronJob
AlreadyRunning == jobStatus.isRunning

\* saveCourseData without the lookup: every save inserts
saveCourseDataAlwaysInsert(table, identifier, t) ==
    Append(table, [identifier |-> identifier, updated_at |-> NoDate])

\* courseRepo.findOne / update / save: update the rows of the identifier when
\* there is one, insert a row otherwise
saveCourseData(table, identifier, t) ==
    IF \E k \in 1..Len(table) : table[k].identifier = identifier
    THEN [k \in 1..Len(table) |->
            IF table[k].identifier = identifier
            THEN [table[k] EXCEPT !.updated_at = t]
            ELSE table[k]]
    ELSE Append(table, [identifier |-> identifier, updated_at |-> NoDate])

\* questionSetRepo.findOne / update / save
saveQuestionSetData(table, identifier, t) ==
    IF \E k \in 1..Len(table) : table[k].identifier = identifier
    THEN [k \in 1..Len(table) |->
            IF table[k].identifier = identifier
            THEN [table[k] EXCEPT !.updated_at = t]
            ELSE table[k]]
    ELSE Append(table, [identifier |-> identifier, updated_at |-> NoDate])

\* the invocation leaves its sub-pull: the locals of the loop are gone
ClearLocals(i) ==
    /\ dataLength' = [dataLength EXCEPT ![i] = 0]
    /\ idx' = [idx EXCEPT ![i] = 0]
    /\ totalProcessed' = [totalProcessed EXCEPT ![i] = 0]
    /\ itemErrors' = [itemErrors EXCEPT ![i] = 0]

\* SkipExecution with the execution counted before the check
SkipExecutionCounted(i) ==
    /\ AlreadyRunning
    /\ jobStatus.totalExecutions < MaxExecutions
    /\ jobStatus' = [jobStatus EXCEPT !.totalExecutions = @ + 1]
    /\ lastCall' = "skipped"
    /\ UNCHANGED <<now, pc, dataLength, idx, totalProcessed, itemErrors,
                   subPull, courseTable, questionSetTable>>

\* executeCronJob returns at once: the job is already running
SkipExecution(i) ==
    /\ AlreadyRunning
    /\ lastCall' = "skipped"
    /\ UNCHANGED <<jobStatus, now, pc, dataLength, idx, totalProcessed, itemErrors,
                   subPull, courseTable, questionSetTable>>

\* executeCronJob takes the guard and runs up to its first await, the course
\* fetch of processCourseData
StartExecution(i) ==
    /\ ~AlreadyRunning
    /\ jobStatus.totalExecutions < MaxExecutions
    /\ jobStatus' = JobStarted(jobStatus, now)
    /\ pc' = [pc EXCEPT ![i] = "courseFetch"]
    /\ subPull' = NoSubPull
    /\ UNCHANGED <<now, dataLength, idx, totalProcessed, itemErrors, lastCall,
                   courseTable, questionSetTable>>

\* @Cron('0 12 * * *') async executeCronJob()
executeCronJob(i) ==
    /\ pc[i] = "idle"
    /\ (SkipExecution(i) \/ StartExecution(i))
    /\ UNCHANGED <<routerVars, projectVars, healthVars>>

\* async triggerManualExecution(): logs, then awaits executeCronJob()
triggerManualExecution(i) ==
    /\ pc[i] = "idle"
    /\ (SkipExecution(i) \/ StartExecution(i))
    /\ UNCHANGED <<routerVars, projectVars, healthVars>>

\* FailExecution without the catch block: the finally block runs and the
\* error leaves executeCronJob
FailExecutionUncaught(i, message) ==
    /\ jobStatus' = [jobStatus EXCEPT !.isRunning = FALSE]
    /\ pc' = [pc EXCEPT ![i] = "idle"]
    /\ lastCall' = "raised"
    /\ ClearLocals(i)

\* an exception reaches the catch block of executeCronJob
FailExecution(i, message) ==
    /\ jobStatus' = JobFailed(jobStatus, message)
    /\ pc' = [pc EXCEPT ![i] = "idle"]
    /\ lastCall' = "failed"
    /\ ClearLocals(i)

\* processCourseData has returned: executeCronJob calls processQuestionSetData,
\* which runs up to its fetch
StartQuestionSetData(i, processed) ==
    /\ subPull' = [subPull EXCEPT !.course = Returned(processed)]
    /\ pc' = [pc EXCEPT ![i] = "questionSetFetch"]
    /\ ClearLocals(i)
    /\ UNCHANGED <<jobStatus, lastCall>>

\* processQuestionSetData has returned: the try block ends, then finally
CompleteExecution(i, processed) ==
    /\ subPull' = [subPull EXCEPT !.questionSet = Returned(processed)]
    /\ jobStatus' = JobSucceeded(jobStatus, now)
    /\ pc' = [pc EXCEPT ![i] = "idle"]
    /\ lastCall' = "success"
    /\ ClearLocals(i)

\* a fetch has returned a collection: the loop starts
StartLoop(i, length, at) ==
    /\ dataLength' = [dataLength EXCEPT ![i] = length]
    /\ idx' = [idx EXCEPT ![i] = 1]
    /\ totalProcessed' = [totalProcessed EXCEPT ![i] = 0]
    /\ itemErrors' = [itemErrors EXCEPT ![i] = 0]
    /\ pc' = [pc EXCEPT ![i] = at]
    /\ UNCHANGED <<jobStatus, lastCall, subPull>>

\* NextItem without the try/catch of the loop body: the error of an item
\* leaves the loop and reaches the catch of executeCronJob
NextItemUncaught(i, fate) ==
    IF fate = "ok"
    THEN /\ idx' = [idx EXCEPT ![i] = @ + 1]
         /\ totalProcessed' = [totalProcessed EXCEPT ![i] = @ + 1]
         /\ UNCHANGED <<jobStatus, pc, dataLength, itemErrors, lastCall,
                        subPull>>
    ELSE /\ FailExecution(i, "itemError")
         /\ UNCHANGED subPull

\* one pass of a for-of loop: the try of the loop body ends with
\* totalProcessed++, or its catch logs the error; the loop goes on
NextItem(i, fate) ==
    /\ idx' = [idx EXCEPT ![i] = @ + 1]
    /\ totalProcessed' =
          [totalProcessed EXCEPT ![i] = IF fate = "ok" THEN @ + 1 ELSE @]
    /\ itemErrors' = [itemErrors EXCEPT ![i] = IF fate = "ok" THEN @ ELSE @ + 1]
    /\ UNCHANGED <<jobStatus, pc, dataLength, lastCall, subPull>>

\* CourseFetchRaised with the error swallowed by the sub-pull: the job goes
\* on to the question sets
CourseFetchSwallowed(i) ==
    /\ subPull' = [subPull EXCEPT !.course = Raised]
    /\ pc' = [pc EXCEPT ![i] = "questionSetFetch"]
    /\ ClearLocals(i)
    /\ UNCHANGED <<jobStatus, lastCall>>

\* the outer catch of processCourseData: log, throw error; the error reaches
\* the catch of executeCronJob
CourseFetchRaised(i) ==
    /\ FailExecution(i, "courseFetchError")
    /\ subPull' = [subPull EXCEPT !.course = Raised]

\* the outer catch of processQuestionSetData: log, throw error
QuestionSetFetchRaised(i) ==
    /\ FailExecution(i, "questionSetFetchError")
    /\ subPull' = [subPull EXCEPT !.questionSet = Raised]

\* CourseNothingToDo with the empty response treated as an error
CourseNothingToDoAsError(i) == CourseFetchRaised(i)

\* processCourseData returns { totalProcessed: 0, duration }: no course data
\* available
CourseNothingToDo(i) == StartQuestionSetData(i, 0)

\* processQuestionSetData returns { totalProcessed: 0, duration }
QuestionSetNothingToDo(i) == CompleteExecution(i, 0)

\* what processCourseData does with the outcome resp of its fetch
courseFetchSettles(i, resp) ==
    \/ /\ resp.kind = "raises"
       /\ CourseFetchRaised(i)
    \/ /\ NothingToDo(resp)
       /\ CourseNothingToDo(i)
    \/ /\ resp.kind = "data"
       /\ StartLoop(i, resp.length, "courseItems")

\* what processQuestionSetData does with the outcome resp of its fetch
questionSetFetchSettles(i, resp) ==
    \/ /\ resp.kind = "raises"
       /\ QuestionSetFetchRaised(i)
    \/ /\ NothingToDo(resp)
       /\ QuestionSetNothingToDo(i)
    \/ /\ resp.kind = "data"
       /\ StartLoop(i, resp.length, "questionSetItems")

\* await this.externalApiService.fetchCourseData() settles
fetchCourseDataReturns(i) ==
    /\ pc[i] = "courseFetch"
    /\ \E resp \in FetchOutcomes : courseFetchSettles(i, resp)
    /\ UNCHANGED <<now, courseTable, questionSetTable>>
    /\ UNCHANGED <<routerVars, projectVars, healthVars>>

\* one pass of the loop of processCourseData: transformExternalCourseData,
\* saveCourseData
processCourseItem(i) ==
    /\ pc[i] = "courseItems"
    /\ idx[i] <= dataLength[i]
    /\ \E identifier \in CourseIds, fate \in Fates :
        /\ courseTable' =
              IF fate = "ok"
              THEN saveCourseData(courseTable, identifier, now)
              ELSE courseTable
        /\ NextItem(i, fate)
    /\ UNCHANGED <<now, questionSetTable>>
    /\ UNCHANGED <<routerVars, projectVars, healthVars>>

\* the loop of processCourseData is over: return { totalProcessed, duration }
processCourseDataReturns(i) ==
    /\ pc[i] = "courseItems"
    /\ idx[i] > dataLength[i]
    /\ StartQuestionSetData(i, totalProcessed[i])
    /\ UNCHANGED <<now, courseTable, questionSetTable>>
    /\ UNCHANGED <<routerVars, projectVars, healthVars>>

\* await this.externalApiService.fetchQuestionSetData() settles
fetchQuestionSetDataReturns(i) ==
    /\ pc[i] = "questionSetFetch"
    /\ \E resp \in FetchOutcomes : questionSetFetchSettles(i, resp)
    /\ UNCHANGED <<now, courseTable, questionSetTable>>
    /\ UNCHANGED <<routerVars, projectVars, healthVars>>

\* one pass of the loop of processQuestionSetData: transformQuestionSetData,
\* saveQuestionSetData
processQuestionSetItem(i) ==
    /\ pc[i] = "questionSetItems"
    /\ idx[i] <= dataLength[i]
    /\ \E identifier \in QuestionSetIds, fate \in Fates :
        /\ questionSetTable' =
              IF fate = "ok"
              THEN saveQuestionSetData(questionSetTable, identifier, now)
              ELSE questionSetTable
        /\ NextItem(i, fate)
    /\ UNCHANGED <<now, courseTable>>
    /\ UNCHANGED <<routerVars, projectVars, healthVars>>

\* the loop of processQuestionSetData is over: it returns, and so does the job
processQuestionSetDataReturns(i) ==
    /\ pc[i] = "questionSetItems"
    /\ idx[i] > dataLength[i]
    /\ CompleteExecution(i, totalProcessed[i])
    /\ UNCHANGED <<now, courseTable, questionSetTable>>
    /\ UNCHANGED <<routerVars, projectVars, healthVars>>

\* time passes
Tick ==
    /\ now < MaxTime
    /\ now' = now + 1
    /\ UNCHANGED <<jobStatus, pc, dataLength, idx, totalProcessed, itemErrors,
                   lastCall, subPull, courseTable, questionSetTable>>
    /\ UNCHANGED <<routerVars, projectVars, healthVars>>

JobInit ==
    /\ jobStatus = InitialJobStatus
    /\ now = 0
    /\ pc = [i \in Invocations |-> "idle"]
    /\ dataLength = [i \in Invocations |-> 0]
    /\ idx = [i \in Invocations |-> 0]
    /\ totalProcessed = [i \in Invocations |-> 0]
    /\ itemErrors = [i \in Invocations |-> 0]
    /\ lastCall = "none"
    /\ subPull = NoSubPull
    /\ courseTable = <<>>
    /\ questionSetTable = <<>>

JobNext ==
    \/ \E i \in Invocations : executeCronJob(i)
    \/ \E i \in Invocations : triggerManualExecution(i)
    \/ \E i \in Invocations : fetchCourseDataReturns(i)
    \/ \E i \in Invocations : processCourseItem(i)
    \/ \E i \in Invocations : processCourseDataReturns(i)
    \/ \E i \in Invocations : fetchQuestionSetDataReturns(i)
    \/ \E i \in Invocations : processQuestionSetItem(i)
    \/ \E i \in Invocations : processQuestionSetDataReturns(i)
    \/ Tick

\* what await this.externalApiService.testConnection() can produce
TestConnectionOutcomes == {"true", "false", "raises"}

NoHealth ==
    [probe |-> "none", call |-> "none", status |-> "none",
     apiConnected |-> "<absent>", error |-> "<absent>"]

\* the try block of healthCheck: the awaited probe raises, or the result is
\* built from what it returned
tryHealthCheck(outcome) ==
    IF outcome = "raises"
    THEN [probe |-> outcome, call |-> "raised", status |-> "none",
          apiConnected |-> "<absent>", error |-> "testConnectionError"]
    ELSE [probe |-> outcome, call |-> "returned",
          status |-> IF outcome = "true" THEN "healthy" ELSE "unhealthy",
          apiConnected |-> outcome, error |-> "<absent>"]

\* catchHealthCheck without the catch: the error of the probe leaves
\* healthCheck
catchHealthCheckMissing(r) == r

\* the catch block of healthCheck: status 'unhealthy', details { error,
\* jobStatus }
catchHealthCheck(r) ==
    IF r.call = "raised"
    THEN [r EXCEPT !.call = "returned", !.status = "unhealthy"]
    ELSE r

\* async healthCheck()
healthCheck ==
    /\ \E outcome \in TestConnectionOutcomes :
          health' = catchHealthCheck(tryHealthCheck(outcome))
    /\ UNCHANGED <<jobVars, routerVars, projectVars, snapshot>>

\* no getJobStatus call yet
NoSnapshot ==
    [taken |-> FALSE, value |-> InitialJobStatus,
     lastExecutionDate |-> 0, lastSuccessDate |-> 0]

\* The Date objects of jobStatus are named by the assignment that allocated
\* them: lastExecution = new Date() runs once per started run, lastSuccess =
\* new Date() once per successful run; 0 names no object (undefined).
LastExecutionDate(js) == js.totalExecutions
LastSuccessDate(js) == js.successfulExecutions

\* { ...this.jobStatus }: a new object whose fields are the field values of
\* jobStatus; a field that holds a Date holds the same Date object
ShallowCopy(js) ==
    [taken |-> TRUE, value |-> js,
     lastExecutionDate |-> LastExecutionDate(js),
     lastSuccessDate |-> LastSuccessDate(js)]

\* getJobStatus(): CronJobStatus
getJobStatus ==
    /\ snapshot' = ShallowCopy(jobStatus)
    /\ UNCHANGED <<jobVars, routerVars, projectVars, health>>

\* the fields of CronJobStatus declared Date
DateFields == {"lastExecution", "lastSuccess"}

\* the snapshot's field and jobStatus's field hold the same Date object
SameDate(field) ==
    IF field = "lastExecution"
    THEN /\ snapshot.value.lastExecution # NoDate
         /\ snapshot.lastExecutionDate = LastExecutionDate(jobStatus)
    ELSE /\ snapshot.value.lastSuccess # NoDate
         /\ snapshot.lastSuccessDate = LastSuccessDate(jobStatus)

\* the caller assigns a field of the object it was given
callerAssignsField ==
    /\ snapshot.taken
    /\ snapshot.value.lastError # "changedByCaller"
    /\ snapshot' = [snapshot EXCEPT !.value.lastError = "changedByCaller"]
    /\ UNCHANGED <<jobVars, routerVars, projectVars, health>>

\* the caller changes, in place, the Date held by a field of the object it
\* was given (Date.prototype.setTime): every holder of that Date sees it
callerSetsDate(field) ==
    /\ snapshot.taken
    /\ snapshot.value[field] # NoDate
    /\ \E t \in 0..MaxTime :
          /\ t # snapshot.value[field]
          /\ snapshot' = [snapshot EXCEPT !.value[field] = t]
          /\ jobStatus' = IF SameDate(field)
                          THEN [jobStatus EXCEPT ![field] = t]
                          ELSE jobStatus
    /\ UNCHANGED <<now, pc, dataLength, idx, totalProcessed, itemErrors,
                   lastCall, subPull, courseTable, questionSetTable>>
    /\ UNCHANGED <<routerVars, projectVars, health>>

HealthInit == health = NoHealth /\ snapshot = NoSnapshot

\* the callers of the status operations
StatusNext ==
    \/ JobNext
    \/ healthCheck
    \/ getJobStatus
    \/ callerAssignsField
    \/ \E field \in DateFields : callerSetsDate(field)

HealthNext ==
    \/ JobNext
    \/ healthCheck

(***************************************************************************)
(* KafkaConsumerService                                                    *)
(***************************************************************************)

\* a field the JSON object does not have
Absent == "<absent>"

Topics ==
    {"user-topic", "event-topic", "attendance-topic", "course-topic",
     "assessment-topic", "event-events", "attendance-events"}

EventTypes ==
    {"USER_CREATED", "USER_UPDATED", "USER_DELETED",
     "COHORT_CREATED", "COHORT_UPDATED", "COHORT_DELETED",
     "EVENT_CREATED", "EVENT_UPDATED", "EVENT_DELETED",
     "ATTENDANCE_CREATED", "ATTENDANCE_UPDATED", "ATTENDANCE_DELETED",
     "ASSESSMENT_CREATED", "ASSESSMENT_UPDATED", "ASSESSMENT_DELETED",
     "COURSE_ENROLLMENT_CREATED", "COURSE_STATUS_UPDATED",
     "CONTENT_TRACKING_CREATED", "SOMETHING_ELSE"}

\* message.value: null, "", text that is not JSON, the JSON text null, a JSON
\* scalar, or a JSON object
ValueKinds == {"null", "emptyString", "notJSON", "jsonNull", "jsonScalar",
               "object"}

\* the messages the bus delivers; handlerRaises says whether the domain
\* handler this message reaches (if any) raises
Messages ==
    [topic : Topics, value : ValueKinds \ {"object"}, eventType : {Absent},
     data : {Absent}, handlerRaises : {FALSE}]
    \cup
    [topic : Topics, value : {"object"},
     eventType : EventTypes \cup {Absent, ""},
     data : {Absent, "null", "object"}, handlerRaises : {FALSE}]
    \cup
    [topic : Topics, value : {"object"}, eventType : EventTypes,
     data : {"object"}, handlerRaises : {TRUE}]

NoMessage ==
    [topic |-> "none", value |-> "null", eventType |-> Absent,
     data |-> Absent, handlerRaises |-> FALSE]

\* !eventType and !data of JavaScript
FalsyEventType(eventType) == eventType \in {Absent, ""}
FalsyData(data) == data \in {Absent, "null"}

\* what a piece of the callback did: the handler operations it invoked, the
\* warnings it logged, and whether it ended by raising
Invoke(operation, raises) ==
    [calls |-> <<operation>>, warns |-> 0, raised |-> raises]
Warn == [calls |-> <<>>, warns |-> 1, raised |-> FALSE]
Quiet == [calls |-> <<>>, warns |-> 0, raised |-> FALSE]
Throw == [calls |-> <<>>, warns |-> 0, raised |-> TRUE]

\* handleUserEvent with USER_UPDATED sent to the delete operation
handleUserEventDeleteOnUpdate(eventType, raises) ==
    CASE eventType = "USER_CREATED" ->
            Invoke("userHandler.handleUserUpsert", raises)
      [] eventType \in {"USER_UPDATED", "USER_DELETED"} ->
            Invoke("userHandler.handleUserDelete", raises)
      [] eventType \in {"COHORT_CREATED", "COHORT_UPDATED"} ->
            Invoke("userHandler.handleCohortUpsert", raises)
      [] eventType = "COHORT_DELETED" ->
            Invoke("userHandler.handleCohortDelete", raises)
      [] OTHER -> Warn

handleUserEvent(eventType, raises) ==
    CASE eventType \in {"USER_CREATED", "USER_UPDATED"} ->
            Invoke("userHandler.handleUserUpsert", raises)
      [] eventType = "USER_DELETED" ->
            Invoke("userHandler.handleUserDelete", raises)
      [] eventType \in {"COHORT_CREATED", "COHORT_UPDATED"} ->
            Invoke("userHandler.handleCohortUpsert", raises)
      [] eventType = "COHORT_DELETED" ->
            Invoke("userHandler.handleCohortDelete", raises)
      [] OTHER -> Warn

handleEventEvent(eventType, raises) ==
    CASE eventType \in {"EVENT_CREATED", "EVENT_UPDATED"} ->
            Invoke("eventHandler.handleEventUpsert", raises)
      [] eventType = "EVENT_DELETED" ->
            Invoke("eventHandler.handleEventDelete", raises)
      [] OTHER -> Warn

handleAttendanceEvent(eventType, raises) ==
    CASE eventType \in {"ATTENDANCE_CREATED", "ATTENDANCE_UPDATED"} ->
            Invoke("attendanceHandler.handleAttendanceUpsert", raises)
      [] eventType = "ATTENDANCE_DELETED" ->
            Invoke("attendanceHandler.handleAttendanceDelete", raises)
      [] OTHER -> Warn

handleAssessmentEvent(eventType, raises) ==
    CASE eventType \in {"ASSESSMENT_CREATED", "ASSESSMENT_UPDATED"} ->
            Invoke("assessmentHandler.handleAssessmentUpsert", raises)
      [] eventType = "ASSESSMENT_DELETED" ->
            Invoke("assessmentHandler.handleAssessmentDelete", raises)
      [] OTHER -> Warn

handleCourseEvent(eventType, raises) ==
    CASE eventType = "COURSE_ENROLLMENT_CREATED" ->
            Invoke("courseHandler.handleCourseEnrollmentCreated", raises)
      [] eventType = "COURSE_STATUS_UPDATED" ->
            Invoke("courseHandler.handleUserCourseUpdate", raises)
      [] OTHER -> Warn

handleContentEvent(eventType, raises) ==
    CASE eventType = "CONTENT_TRACKING_CREATED" ->
            Invoke("contentHandler.handleContentTrackingCreated", raises)
      [] OTHER -> Warn

\* the check at the head of processEvent
InvalidEvent(eventType, data) ==
    FalsyEventType(eventType) \/ FalsyData(data)

\* the switch on the topic of processEvent
dispatchByTopic(topic, eventType, raises) ==
    CASE topic = "user-topic" -> handleUserEvent(eventType, raises)
      [] topic = "event-topic" -> handleEventEvent(eventType, raises)
      [] topic = "attendance-topic" -> handleAttendanceEvent(eventType, raises)
      [] topic = "course-topic" -> handleCourseEvent(eventType, raises)
      [] topic = "assessment-topic" ->
            handleAssessmentEvent(eventType, raises)
      [] OTHER -> Warn

\* IsOverride with the rule for content tracking left out
IsOverrideEnrollmentOnly(eventType) == eventType = "COURSE_ENROLLMENT_CREATED"

\* the routing of COURSE_ENROLLMENT_CREATED and CONTENT_TRACKING_CREATED
\* regardless of topic
IsOverride(eventType) ==
    eventType \in {"COURSE_ENROLLMENT_CREATED", "CONTENT_TRACKING_CREATED"}

routeOverride(eventType, raises) ==
    IF eventType = "COURSE_ENROLLMENT_CREATED"
    THEN handleCourseEvent(eventType, raises)
    ELSE handleContentEvent(eventType, raises)

\* processEvent with the override rules applied before the validity check
processEventOverrideFirst(topic, eventType, data, raises) ==
    IF IsOverride(eventType) THEN routeOverride(eventType, raises)
    ELSE IF InvalidEvent(eventType, data) THEN Warn
    ELSE dispatchByTopic(topic, eventType, raises)

\* private async processEvent(topic, event)
processEvent(topic, eventType, data, raises) ==
    IF InvalidEvent(eventType, data) THEN Warn
    ELSE IF IsOverride(eventType) THEN routeOverride(eventType, raises)
    ELSE dispatchByTopic(topic, eventType, raises)

\* the try block of the eachMessage callback
tryEachMessage(m) ==
    CASE m.value \in {"null", "emptyString"} -> Warn
      [] m.value = "notJSON" -> Throw
      [] m.value = "jsonNull" -> Throw
      [] OTHER -> processEvent(m.topic, m.eventType, m.data, m.handlerRaises)

\* catchEachMessage without the catch: the error leaves the callback
catchEachMessageMissing(r) ==
    [calls |-> r.calls, warns |-> r.warns, raised |-> r.raised, errors |-> 0]

\* the catch block of the eachMessage callback: log the error, return
catchEachMessage(r) ==
    [calls |-> r.calls, warns |-> r.warns, raised |-> FALSE,
     errors |-> IF r.raised THEN 1 ELSE 0]

\* the earlier KafkaConsumerService: handleEventEvent and
\* handleAttendanceEvent only log
legacyProcessEvent(topic, eventType, data, raises) ==
    IF InvalidEvent(eventType, data) THEN Warn
    ELSE CASE topic = "user-topic" -> handleUserEvent(eventType, raises)
           [] topic = "event-events" -> Quiet
           [] topic = "attendance-events" -> Quiet
           [] OTHER -> Warn

\* the try block of the eachMessage callback of the earlier service
legacyTryEachMessage(m) ==
    CASE m.value \in {"null", "emptyString"} -> Warn
      [] m.value = "notJSON" -> Throw
      [] m.value = "jsonNull" -> Throw
      [] OTHER ->
          legacyProcessEvent(m.topic, m.eventType, m.data, m.handlerRaises)

\* the catch block of the eachMessage callback of the earlier service
legacyCatchEachMessage(r) ==
    [calls |-> r.calls, warns |-> r.warns, raised |-> FALSE,
     errors |-> IF r.raised THEN 1 ELSE 0]

\* the callback has run for message m with result r
Consumed(m, r) ==
    /\ lastMessage' = m
    /\ service' = service
    /\ callback' = IF r.raised THEN "raised" ELSE "returned"
    /\ dispatch' = r.calls
    /\ warnings' = r.warns
    /\ errorsLogged' = r.errors
    /\ poisoned' =
          (\/ poisoned
           \/ /\ lastMessage # NoMessage
              /\ \/ errorsLogged > 0
                 \/ callback = "raised"
                 \/ lastMessage.value \in {"null", "emptyString"})

\* consumer.run({ eachMessage }) of part_001
eachMessage(m) ==
    /\ service = "current"
    /\ Consumed(m, catchEachMessage(tryEachMessage(m)))
    /\ UNCHANGED <<jobVars, projectVars, healthVars>>

\* consumer.run({ eachMessage }) of kafka/kafka-consumer.ts
legacyEachMessage(m) ==
    /\ service = "legacy"
    /\ Consumed(m, legacyCatchEachMessage(legacyTryEachMessage(m)))
    /\ UNCHANGED <<jobVars, projectVars, healthVars>>

RouterInit ==
    /\ lastMessage = NoMessage
    /\ service \in {"current", "legacy"}
    /\ callback = "none"
    /\ dispatch = <<>>
    /\ warnings = 0
    /\ errorsLogged = 0
    /\ poisoned = FALSE

RouterNext ==
    \/ \E m \in Messages : eachMessage(m)
    \/ \E m \in Messages : legacyEachMessage(m)

(***************************************************************************)
(* ProjectHandler                                                          *)
(***************************************************************************)

\* longest tasks array of a project-sync payload
MaxTasks == 2

SolutionIds == {"s1", "s2"}
UserIds == {"u1"}
TaskIds == 1..MaxTasks
TaskStatuses == {"completed", "started"}

\* a value of data._id that is present and is not a string
NotAString == "<number>"

\* tasks arrays: every task appears once, in the order of its taskId
TaskLists ==
    {l \in UNION {[1..n -> [taskId : TaskIds, status : TaskStatuses]] :
                      n \in 0..MaxTasks} :
        \A a, b \in 1..Len(l) : a < b => l[a].taskId < l[b].taskId}

\* the project-sync messages; hasTasks = FALSE: no tasks field
SyncPayloads ==
    [id : {Absent, NotAString, "p1"}, solutionId : SolutionIds \cup {Absent},
     userId : UserIds, hasTasks : {TRUE}, tasks : TaskLists]
    \cup
    [id : {Absent, NotAString, "p1"}, solutionId : SolutionIds \cup {Absent},
     userId : UserIds, hasTasks : {FALSE}, tasks : {<<>>}]

\* the natural keys of ProjectTaskTracking
TrackingKeys == [projectId : SolutionIds, taskId : TaskIds, userId : UserIds]

\* validateRequired(data._id), validateString(data._id),
\* validateRequired(data.solutionId), validateRequired(data.tasks)
SyncPayloadValid(data) ==
    /\ data.id # Absent
    /\ data.id # NotAString
    /\ data.solutionId # Absent
    /\ data.hasTasks

\* transformService.transformProjectTaskTrackingData: one record per task
\* whose status is "completed"
transformProjectTaskTrackingData(data) ==
    LET completed == SelectSeq(data.tasks, LAMBDA t : t.status = "completed")
    IN [k \in 1..Len(completed) |->
            [projectId |-> data.solutionId, taskId |-> completed[k].taskId,
             userId |-> data.userId]]

\* dbService.upsertProjectTaskTrackings: the records whose key has no row
NewRecords(store, records) == SelectSeq(records, LAMBDA r : store[r] = 0)

\* dbService.upsertProjectTaskTrackings: the rows after the insert
StoreAfterUpsert(store, records) ==
    LET new == NewRecords(store, records)
    IN [key \in TrackingKeys |->
            store[key] + Cardinality({k \in 1..Len(new) : new[k] = key})]

\* dbService.upsertProjectTaskTrackings: { inserted, skipped }
UpsertCounts(store, records) ==
    [inserted |-> Len(NewRecords(store, records)),
     skipped |-> Len(records) - Len(NewRecords(store, records))]

\* TrackingRecordsOf with every task of the payload passed on, whatever its
\* status
TrackingRecordsOfAllTasks(data) ==
    [k \in 1..Len(data.tasks) |->
        [projectId |-> data.solutionId, taskId |-> data.tasks[k].taskId,
         userId |-> data.userId]]

\* const trackingRecords = await transformProjectTaskTrackingData(data)
TrackingRecordsOf(data) == transformProjectTaskTrackingData(data)

\* an error object: its class and the parts its message is made of
NotRaised == [class |-> "none", message |-> <<>>]

\* what validateRequired and validateString throw
ValidationFailure ==
    [class |-> "ValidationError", message |-> <<"field is required">>]

\* what a call of DatabaseService throws
StorageFailure == [class |-> "Error", message |-> <<"storage error">>]

\* catchProjectError without the test of the class of the error
catchProjectErrorRethrow(error) == error

\* the catch block of the handlers: a ValidationError becomes
\* new Error(`Validation failed: ${error.message}`), any other error is
\* thrown again as it is
catchProjectError(error) ==
    IF error.class = "ValidationError"
    THEN [class |-> "Error",
          message |-> <<"Validation failed: ">> \o error.message]
    ELSE error

\* SyncResult with the two counts of the gateway exchanged
SyncResultSwapped(data, records, result) ==
    [handler |-> "handleProjectSyncUpdate", status |-> "returned",
     data |-> data, totalTasks |-> Len(data.tasks),
     completedTasks |-> Len(records), inserted |-> result.skipped,
     skipped |-> result.inserted, error |-> NotRaised,
     calls |-> <<"transformProjectTaskTrackingData",
                 "upsertProjectTaskTrackings">>]

\* the object handleProjectSyncUpdate returns after the upsert
SyncResult(data, records, result) ==
    [handler |-> "handleProjectSyncUpdate", status |-> "returned",
     data |-> data, totalTasks |-> Len(data.tasks),
     completedTasks |-> Len(records), inserted |-> result.inserted,
     skipped |-> result.skipped, error |-> NotRaised,
     calls |-> <<"transformProjectTaskTrackingData",
                 "upsertProjectTaskTrackings">>]

\* the object handleProjectSyncUpdate returns when no task is completed
EmptySyncResult(data) ==
    [handler |-> "handleProjectSyncUpdate", status |-> "returned",
     data |-> data, totalTasks |-> Len(data.tasks),
     completedTasks |-> 0, inserted |-> 0, skipped |-> 0,
     error |-> NotRaised, calls |-> <<"transformProjectTaskTrackingData">>]

\* a handler of ProjectHandler raises error after the calls it made
SyncError(handler, data, error, calls) ==
    [handler |-> handler, status |-> "raised", data |-> data, totalTasks |-> 0,
     completedTasks |-> 0, inserted |-> 0, skipped |-> 0, error |-> error,
     calls |-> calls]

NoSync ==
    [handler |-> "none", status |-> "none",
     data |-> [id |-> Absent, solutionId |-> Absent, userId |-> "u1",
               hasTasks |-> FALSE, tasks |-> <<>>],
     totalTasks |-> 0, completedTasks |-> 0, inserted |-> 0, skipped |-> 0,
     error |-> NotRaised, calls |-> <<>>]

\* handleProjectSyncUpdate without the return for an empty list of records:
\* the storage call is made with the empty list
handleProjectSyncUpdateNoShortCircuit(data, storageRaises) ==
    /\ UNCHANGED <<jobVars, routerVars, healthVars>>
    /\ UNCHANGED <<projectTable, projectTaskTable>>
    /\ LET records == TrackingRecordsOf(data)
       IN IF ~SyncPayloadValid(data)
          THEN /\ lastSync' =
                     SyncError("handleProjectSyncUpdate", data,
                               catchProjectError(ValidationFailure), <<>>)
               /\ UNCHANGED trackingStore
          ELSE IF storageRaises
          THEN /\ lastSync' =
                     SyncError("handleProjectSyncUpdate", data,
                               catchProjectError(StorageFailure),
                               <<"transformProjectTaskTrackingData",
                                 "upsertProjectTaskTrackings">>)
               /\ UNCHANGED trackingStore
          ELSE /\ trackingStore' = StoreAfterUpsert(trackingStore, records)
               /\ lastSync' =
                     SyncResult(data, records,
                                UpsertCounts(trackingStore, records))

\* async handleProjectSyncUpdate(data); storageRaises: the storage call of
\* this delivery fails
handleProjectSyncUpdate(data, storageRaises) ==
    /\ UNCHANGED <<jobVars, routerVars, healthVars>>
    /\ UNCHANGED <<projectTable, projectTaskTable>>
    /\ LET records == TrackingRecordsOf(data)
       IN IF ~SyncPayloadValid(data)
          THEN /\ lastSync' =
                     SyncError("handleProjectSyncUpdate", data,
                               catchProjectError(ValidationFailure), <<>>)
               /\ UNCHANGED trackingStore
          ELSE IF Len(records) = 0
          THEN /\ lastSync' = EmptySyncResult(data)
               /\ UNCHANGED trackingStore
          ELSE IF storageRaises
          THEN /\ lastSync' =
                     SyncError("handleProjectSyncUpdate", data,
                               catchProjectError(StorageFailure),
                               <<"transformProjectTaskTrackingData",
                                 "upsertProjectTaskTrackings">>)
               /\ UNCHANGED trackingStore
          ELSE /\ trackingStore' = StoreAfterUpsert(trackingStore, records)
               /\ lastSync' =
                     SyncResult(data, records,
                                UpsertCounts(trackingStore, records))

\* the payloads of a project creation event
CreatedPayloads ==
    [projectTemplate : {"object"},
     projectTemplateId : {Absent, NotAString, "t1"},
     projectTemplateTasks : {Absent, "array"}]
    \cup
    [projectTemplate : {Absent}, projectTemplateId : {Absent},
     projectTemplateTasks : {Absent, "array"}]

\* validateRequired(data.projectTemplate),
\* validateRequired(data.projectTemplateTasks),
\* validateString(data.projectTemplate.projectTemplateId)
CreatedPayloadValid(data) ==
    /\ data.projectTemplate # Absent
    /\ data.projectTemplateTasks # Absent
    /\ data.projectTemplateId # Absent
    /\ data.projectTemplateId # NotAString

\* the storage call of handleProjectCreated that fails, if any
CreatedFailures == {"none", "upsertProject", "upsertProjectTasks"}

\* the calls made after upsertProject has returned
TaskCalls == {"transformProjectTasksData", "upsertProjectTasks"}

\* what a call of TransformService throws
TransformFailure == [class |-> "Error", message |-> <<"transform error">>]

\* ProjectTableAfter where the failure of a later call takes the row back
ProjectTableAfterRollback(table, data, failAt) ==
    IF CreatedPayloadValid(data) /\ failAt = "none"
    THEN table \cup {data.projectTemplateId}
    ELSE table

\* the Project rows after the call: await this.dbService.upsertProject(...)
\* has written the row of the project once it has returned, and nothing
\* after it takes the row back
ProjectTableAfter(table, data, failAt) ==
    IF CreatedPayloadValid(data) /\ failAt # "upsertProject"
    THEN table \cup {data.projectTemplateId}
    ELSE table

\* the ProjectTask rows after the call: written once
\* await this.dbService.upsertProjectTasks(...) has returned
ProjectTaskTableAfter(table, data, failAt) ==
    IF CreatedPayloadValid(data) /\ failAt = "none"
    THEN table \cup {data.projectTemplateId}
    ELSE table

\* the object handleProjectCreated returns
CreatedResult(data) ==
    [handler |-> "handleProjectCreated", status |-> "returned",
     data |-> data, totalTasks |-> 0, completedTasks |-> 0, inserted |-> 0,
     skipped |-> 0, error |-> NotRaised,
     calls |-> <<"transformProjectData", "upsertProject",
                 "transformProjectTasksData", "upsertProjectTasks">>]

\* async handleProjectCreated(data); failAt: the storage call of this
\* delivery that fails
handleProjectCreated(data, failAt) ==
    /\ UNCHANGED <<jobVars, routerVars, healthVars>>
    /\ UNCHANGED trackingStore
    /\ projectTable' = ProjectTableAfter(projectTable, data, failAt)
    /\ projectTaskTable' = ProjectTaskTableAfter(projectTaskTable, data, failAt)
    /\ lastSync' =
          IF ~CreatedPayloadValid(data)
          THEN SyncError("handleProjectCreated", data,
                         catchProjectError(ValidationFailure), <<>>)
          ELSE IF failAt = "upsertProject"
          THEN SyncError("handleProjectCreated", data,
                         catchProjectError(StorageFailure),
                         <<"transformProjectData", "upsertProject">>)
          ELSE IF failAt = "transformProjectTasksData"
          THEN SyncError("handleProjectCreated", data,
                         catchProjectError(TransformFailure),
                         <<"transformProjectData", "upsertProject",
                           "transformProjectTasksData">>)
          ELSE IF failAt = "upsertProjectTasks"
          THEN SyncError("handleProjectCreated", data,
                         catchProjectError(StorageFailure),
                         <<"transformProjectData", "upsertProject",
                           "transformProjectTasksData",
                           "upsertProjectTasks">>)
          ELSE CreatedResult(data)

ProjectInit ==
    /\ trackingStore = [key \in TrackingKeys |-> 0]
    /\ lastSync = NoSync
    /\ projectTable = {}
    /\ projectTaskTable = {}

\* handleProjectSyncUpdate reads and writes ProjectTaskTracking only,
\* handleProjectCreated Project and ProjectTask only: the deliveries of the
\* first are explored up to the first Project row, those of the second in
\* every state
syncDelivery(data, storageRaises) ==
    /\ projectTable = {}
    /\ handleProjectSyncUpdate(data, storageRaises)

ProjectNext ==
    \/ \E data \in SyncPayloads, storageRaises \in BOOLEAN :
          syncDelivery(data, storageRaises)
    \/ \E data \in CreatedPayloads, failAt \in CreatedFailures :
          handleProjectCreated(data, failAt)

CreatedNext ==
    \/ \E data \in SyncPayloads, storageRaises \in BOOLEAN :
          syncDelivery(data, storageRaises)
    \/ \E data \in CreatedPayloads,
           failAt \in CreatedFailures \cup TaskCalls :
          handleProjectCreated(data, failAt)

(***************************************************************************)
(* Specifications                                                          *)
(***************************************************************************)

Init ==
    JobInit /\ RouterInit /\ ProjectInit /\ HealthInit /\ service = "current"

\* either KafkaConsumerService of the repository may be the one that runs
RouterSpecInit == JobInit /\ RouterInit /\ ProjectInit /\ HealthInit

JobSpec == Init /\ [][JobNext]_vars

RouterSpec == RouterSpecInit /\ [][RouterNext]_vars

ProjectSpec == Init /\ [][ProjectNext]_vars

\* ProjectHandler where the transform of the tasks may raise as well
CreatedSpec == Init /\ [][CreatedNext]_vars

\* the consumer and the job share no state: a behaviour of the two is a
\* behaviour of the job (the consumer has seen no message) or a behaviour of
\* the consumer (the job has not been triggered)
SyncNext ==
    \/ /\ lastMessage = NoMessage
       /\ service = "current"
       /\ JobNext
    \/ /\ jobStatus.totalExecutions = 0
       /\ now = 0
       /\ RouterNext

SyncSpec == RouterSpecInit /\ [][SyncNext]_vars

\* the job with health probes arriving at any moment
HealthSpec == Init /\ [][HealthNext]_vars

\* the job with callers of getJobStatus and healthCheck at any moment
StatusSpec == Init /\ [][StatusNext]_vars

\* the scheduler and the awaited calls are fair: every fetch and every
\* transform / storage call eventually returns or raises
JobFairness ==
    \A i \in Invocations :
        /\ WF_vars(fetchCourseDataReturns(i))
        /\ WF_vars(processCourseItem(i))
        /\ WF_vars(processCourseDataReturns(i))
        /\ WF_vars(fetchQuestionSetDataReturns(i))
        /\ WF_vars(processQuestionSetItem(i))
        /\ WF_vars(processQuestionSetDataReturns(i))

FairJobSpec == JobSpec /\ JobFairness

(***************************************************************************)
(* Properties of the scheduled sync job                                    *)
(***************************************************************************)

\* the invocations that are inside the job body
ActiveRuns == {i \in Invocations : pc[i] \in BodyPcs}

\* a step in which some call of executeCronJob or triggerManualExecution
\* is made
TriggerStep ==
    \E i \in Invocations : executeCronJob(i) \/ triggerManualExecution(i)

\* C1: at most one execution of the job body is active at any time, under
\* every interleaving of scheduled and manual triggers at the await points.
C1_SingleFlight == Cardinality(ActiveRuns) <= 1

\* a trigger has been skipped while a run was suspended inside the body
C1_Witness ==
    /\ lastCall = "skipped"
    /\ \E i \in Invocations : pc[i] \in {"courseItems", "questionSetItems"}

\* C2: a trigger that arrives while isRunning = true is a no-op: it changes
\* no field of jobStatus, starts no fetch (no invocation moves) and writes
\* no row.
C2_SkippedTriggerIsNoOp ==
    [][(jobStatus.isRunning /\ TriggerStep) =>
          /\ jobStatus' = jobStatus
          /\ pc' = pc
          /\ courseTable' = courseTable
          /\ questionSetTable' = questionSetTable
          /\ lastCall' = "skipped"]_vars

\* a trigger was skipped during a run that is still going on
C2_Witness ==
    /\ lastCall = "skipped"
    /\ jobStatus.isRunning
    /\ jobStatus.totalExecutions = 1

\* C3: every run that sets isRunning releases it, whichever way it ends; and
\* isRunning is never left set without a run inside the body, so a trigger
\* is skipped only because of a run that is still active.
C3_GuardReleased ==
    /\ jobStatus.isRunning ~> ~jobStatus.isRunning
    /\ [](jobStatus.isRunning <=> ActiveRuns # {})

\* a run has failed, another has succeeded, and the guard is free
C3_Witness ==
    /\ ~jobStatus.isRunning
    /\ jobStatus.failedExecutions >= 1
    /\ jobStatus.successfulExecutions >= 1

\* C6: inside a sub-pull a failing item does not abort the batch: the loop
\* is left only after its last item, every pass is counted either in
\* totalProcessed or as a logged error, the value returned is totalProcessed,
\* and a run fails only when a fetch raised, never because of an item.
C6_ItemFailureIsolated ==
    /\ [](\A i \in Invocations :
            pc[i] \in {"courseItems", "questionSetItems"} =>
                /\ totalProcessed[i] + itemErrors[i] = idx[i] - 1
                /\ idx[i] <= dataLength[i] + 1)
    /\ [][\A i \in Invocations :
            (pc[i] = "courseItems" /\ pc'[i] # "courseItems") =>
                /\ idx[i] = dataLength[i] + 1
                /\ pc'[i] = "questionSetFetch"
                /\ subPull'.course =
                      Returned(dataLength[i] - itemErrors[i])]_vars
    /\ [][\A i \in Invocations :
            (pc[i] = "questionSetItems" /\ pc'[i] # "questionSetItems") =>
                /\ idx[i] = dataLength[i] + 1
                /\ subPull'.questionSet =
                      Returned(dataLength[i] - itemErrors[i])]_vars
    /\ [][(jobStatus.isRunning /\ ~jobStatus'.isRunning) =>
            IF "raised" \in {subPull'.course.state, subPull'.questionSet.state}
            THEN /\ jobStatus'.failedExecutions =
                       jobStatus.failedExecutions + 1
                 /\ jobStatus'.successfulExecutions =
                       jobStatus.successfulExecutions
            ELSE /\ jobStatus'.successfulExecutions =
                       jobStatus.successfulExecutions + 1
                 /\ jobStatus'.failedExecutions = jobStatus.failedExecutions
                 /\ lastCall' = "success"]_vars

\* the loop of a course batch is over: one item failed, another was processed
C6_Witness ==
    \E i \in Invocations :
        /\ pc[i] = "courseItems"
        /\ idx[i] = dataLength[i] + 1
        /\ itemErrors[i] >= 1
        /\ totalProcessed[i] >= 1

CompletedKeys(data) ==
    {[projectId |-> data.solutionId, taskId |-> data.tasks[k].taskId,
      userId |-> data.userId] :
        k \in {j \in 1..Len(data.tasks) : data.tasks[j].status = "completed"}}

C5_SyncCounts ==
    [][(lastSync'.handler = "handleProjectSyncUpdate"
          /\ lastSync'.status = "returned"
          /\ SyncPayloadValid(lastSync'.data)) =>
          LET data == lastSync'.data
          IN /\ lastSync'.inserted =
                  Cardinality({key \in CompletedKeys(data) :
                                  trackingStore[key] = 0})
             /\ lastSync'.skipped =
                  Cardinality({key \in CompletedKeys(data) :
                                  trackingStore[key] > 0})
             /\ (lastSync.status = "returned" /\ lastSync.data = data) =>
                  /\ lastSync'.inserted = 0
                  /\ lastSync'.skipped = lastSync.inserted + lastSync.skipped]_vars

\* a first call with one completed task already tracked and one new
C5_Witness ==
    /\ lastSync.handler = "handleProjectSyncUpdate"
    /\ lastSync.status = "returned"
    /\ lastSync.inserted = 1
    /\ lastSync.skipped = 1

(***************************************************************************)
(* Properties of the message callback and the event router                 *)
(***************************************************************************)

\* the last message was a JSON object with both fields usable
ValidEnvelope ==
    /\ lastMessage.value = "object"
    /\ ~InvalidEvent(lastMessage.eventType, lastMessage.data)

UserFamily ==
    {"USER_CREATED", "USER_UPDATED", "USER_DELETED",
     "COHORT_CREATED", "COHORT_UPDATED", "COHORT_DELETED"}

\* C8: the message callback never raises to the bus client: it returns for
\* empty messages, for text that is not JSON and when a handler raises (the
\* error is logged once), and a message that follows such a message is still
\* routed to its handler.
C8_CallbackNeverRaises ==
    /\ callback \in {"none", "returned"}
    /\ lastMessage # NoMessage => callback = "returned"
    /\ (lastMessage.value \in {"notJSON", "jsonNull"} \/
        (ValidEnvelope /\ lastMessage.handlerRaises /\ dispatch # <<>>))
          => errorsLogged = 1
    /\ (poisoned /\ ValidEnvelope /\ lastMessage.topic = "user-topic"
          /\ lastMessage.eventType \in UserFamily) => Len(dispatch) = 1

\* after a message that failed, a user event has been routed to its handler
C8_Witness ==
    /\ poisoned
    /\ ValidEnvelope
    /\ lastMessage.eventType = "USER_CREATED"
    /\ dispatch = <<"userHandler.handleUserUpsert">>
    /\ callback = "returned"

\* C9: an envelope without eventType or without data (absent, or present
\* with the empty string or null) is dropped on every
\* topic with exactly one warning: no handler is invoked (so no storage call
\* is made), also when its eventType is one of the override types.
C9_InvalidEnvelopeDropped ==
    (lastMessage.value \in {"object", "jsonScalar"}
        /\ (lastMessage.eventType \in {Absent, ""}
              \/ lastMessage.data \in {Absent, "null"})) =>
            /\ warnings = 1
            /\ dispatch = <<>>
            /\ errorsLogged = 0
            /\ callback = "returned"

\* an enrollment event without data has been dropped
C9_Witness ==
    /\ service = "current"
    /\ lastMessage.value = "object"
    /\ lastMessage.eventType = "COURSE_ENROLLMENT_CREATED"
    /\ lastMessage.data = Absent
    /\ warnings = 1

\* C10: in the service with the override rules, an envelope with data and
\* eventType COURSE_ENROLLMENT_CREATED invokes
\* courseHandler.handleCourseEnrollmentCreated once and nothing else, and one
\* with CONTENT_TRACKING_CREATED invokes
\* contentHandler.handleContentTrackingCreated once and nothing else, on
\* every topic.
C10_OverrideRouting ==
    (service = "current" /\ lastMessage.value = "object"
        /\ lastMessage.data = "object") =>
        /\ lastMessage.eventType = "COURSE_ENROLLMENT_CREATED" =>
              dispatch = <<"courseHandler.handleCourseEnrollmentCreated">>
        /\ lastMessage.eventType = "CONTENT_TRACKING_CREATED" =>
              dispatch = <<"contentHandler.handleContentTrackingCreated">>

\* a content tracking event on the topic of another family has reached the
\* content handler
C10_Witness ==
    /\ service = "current"
    /\ lastMessage.topic = "attendance-topic"
    /\ lastMessage.eventType = "CONTENT_TRACKING_CREATED"
    /\ dispatch = <<"contentHandler.handleContentTrackingCreated">>

\* the routing table of the specification: the handler operation of an
\* event type on the topic of its family
FamilyOperations ==
    [topic : {"user-topic"}, eventType : {"USER_CREATED", "USER_UPDATED"},
     operation : {"userHandler.handleUserUpsert"}]
    \cup
    [topic : {"user-topic"}, eventType : {"USER_DELETED"},
     operation : {"userHandler.handleUserDelete"}]
    \cup
    [topic : {"user-topic"}, eventType : {"COHORT_CREATED", "COHORT_UPDATED"},
     operation : {"userHandler.handleCohortUpsert"}]
    \cup
    [topic : {"user-topic"}, eventType : {"COHORT_DELETED"},
     operation : {"userHandler.handleCohortDelete"}]
    \cup
    [topic : {"event-topic"}, eventType : {"EVENT_CREATED", "EVENT_UPDATED"},
     operation : {"eventHandler.handleEventUpsert"}]
    \cup
    [topic : {"event-topic"}, eventType : {"EVENT_DELETED"},
     operation : {"eventHandler.handleEventDelete"}]
    \cup
    [topic : {"attendance-topic"},
     eventType : {"ATTENDANCE_CREATED", "ATTENDANCE_UPDATED"},
     operation : {"attendanceHandler.handleAttendanceUpsert"}]
    \cup
    [topic : {"attendance-topic"}, eventType : {"ATTENDANCE_DELETED"},
     operation : {"attendanceHandler.handleAttendanceDelete"}]
    \cup
    [topic : {"course-topic"}, eventType : {"COURSE_STATUS_UPDATED"},
     operation : {"courseHandler.handleUserCourseUpdate"}]
    \cup
    [topic : {"assessment-topic"},
     eventType : {"ASSESSMENT_CREATED", "ASSESSMENT_UPDATED"},
     operation : {"assessmentHandler.handleAssessmentUpsert"}]
    \cup
    [topic : {"assessment-topic"}, eventType : {"ASSESSMENT_DELETED"},
     operation : {"assessmentHandler.handleAssessmentDelete"}]

OverrideTypes == {"COURSE_ENROLLMENT_CREATED", "CONTENT_TRACKING_CREATED"}

\* the operations the table gives the last message
TableOperations ==
    {f.operation : f \in {g \in FamilyOperations :
                            /\ g.topic = lastMessage.topic
                            /\ g.eventType = lastMessage.eventType}}

\* C11: a valid envelope whose eventType is not an override type and belongs
\* to the family of its topic invokes exactly the one handler operation the
\* table gives it (user-topic -> User/Cohort, event-topic -> Event,
\* attendance-topic -> Attendance, course-topic -> Course, assessment-topic
\* -> Assessment; created and updated -> upsert, deleted -> delete), in
\* either consumer.
C11_TopicTable ==
    (ValidEnvelope /\ lastMessage.eventType \notin OverrideTypes) =>
        \A operation \in TableOperations : dispatch = <<operation>>

\* C11 for the consumer that has the five families: the same table
C11_CurrentTopicTable ==
    (service = "current" /\ ValidEnvelope
        /\ lastMessage.eventType \notin OverrideTypes) =>
        \A operation \in TableOperations : dispatch = <<operation>>

\* the earlier consumer has dropped EVENT_CREATED on event-topic with a
\* warning
C11_Witness ==
    /\ service = "legacy"
    /\ ValidEnvelope
    /\ lastMessage.topic = "event-topic"
    /\ lastMessage.eventType = "EVENT_CREATED"
    /\ dispatch = <<>>
    /\ warnings = 1

\* the last message is a valid envelope the table has no handler for: its
\* topic is not one of the five, or its eventType is outside the family of
\* its topic (the override types, which have a handler on every topic, left
\* aside)
Unhandled ==
    /\ ValidEnvelope
    /\ lastMessage.eventType \notin OverrideTypes
    /\ TableOperations = {}

\* C19: a valid envelope on an unhandled topic, or with an eventType outside
\* the family of its topic, is dropped with a warning: no handler is invoked
\* (so no storage call is made), no error is logged and the callback
\* returns, in either consumer.
C19_UnhandledDropped ==
    Unhandled =>
        /\ warnings = 1
        /\ dispatch = <<>>
        /\ errorsLogged = 0
        /\ callback = "returned"

\* C19 for the consumer that has the five families
C19_CurrentUnhandledDropped ==
    (service = "current" /\ Unhandled) =>
        /\ warnings = 1
        /\ dispatch = <<>>
        /\ errorsLogged = 0
        /\ callback = "returned"

\* the earlier consumer has dropped EVENT_CREATED on event-events without a
\* warning
C19_Witness ==
    /\ service = "legacy"
    /\ ValidEnvelope
    /\ lastMessage.topic = "event-events"
    /\ lastMessage.eventType = "EVENT_CREATED"
    /\ dispatch = <<>>
    /\ warnings = 0
    /\ callback = "returned"

(***************************************************************************)
(* Properties of the saves of the scheduled job                            *)
(***************************************************************************)

\* the positions of the rows of an identifier in a table
RowsOf(table, identifier) ==
    {k \in 1..Len(table) : table[k].identifier = identifier}

\* a save of identifier into table has produced after at time t: a row is
\* inserted when there was none, the row is updated in place otherwise
Upserted(table, after, identifier, t) ==
    IF RowsOf(table, identifier) = {}
    THEN /\ Len(after) = Len(table) + 1
         /\ SubSeq(after, 1, Len(table)) = table
         /\ after[Len(after)].identifier = identifier
    ELSE /\ Len(after) = Len(table)
         /\ \A k \in 1..Len(table) :
               IF k \in RowsOf(table, identifier)
               THEN /\ after[k].identifier = identifier
                    /\ after[k].updated_at = t
               ELSE after[k] = table[k]

\* C12: a table of the sync path never holds two rows of one identifier,
\* however many runs and items carry it; a pass of a loop that saves an item
\* inserts its row when there is none and otherwise updates the row in place
\* with updated_at set to the time of the save, and no other step changes a
\* table.
C12_UpsertIdempotent ==
    /\ [](/\ \A identifier \in CourseIds :
                Cardinality(RowsOf(courseTable, identifier)) <= 1
          /\ \A identifier \in QuestionSetIds :
                Cardinality(RowsOf(questionSetTable, identifier)) <= 1)
    /\ [][\A i \in Invocations :
            /\ (pc[i] = "courseItems"
                  /\ totalProcessed'[i] = totalProcessed[i] + 1) =>
                \E identifier \in CourseIds :
                    Upserted(courseTable, courseTable', identifier, now)
            /\ (pc[i] = "questionSetItems"
                  /\ totalProcessed'[i] = totalProcessed[i] + 1) =>
                \E identifier \in QuestionSetIds :
                    Upserted(questionSetTable, questionSetTable',
                             identifier, now)]_vars
    /\ [][(\A i \in Invocations : totalProcessed'[i] # totalProcessed[i] + 1)
            => UNCHANGED <<courseTable, questionSetTable>>]_vars

\* the one row of a course has been updated by a later save
C12_Witness ==
    /\ Len(courseTable) = 1
    /\ courseTable[1].updated_at = MaxTime
    /\ jobStatus.totalExecutions = MaxExecutions

(***************************************************************************)
(* Properties of healthCheck                                               *)
(***************************************************************************)

\* C13 as stated: when the probe returns false or raises, healthCheck
\* returns status "unhealthy" with details.apiConnected = false.
C13_Original ==
    health.probe \in {"false", "raises"} =>
        /\ health.call = "returned"
        /\ health.status = "unhealthy"
        /\ health.apiConnected = "false"

\* C13 amended: healthCheck never raises; when the probe returns false the
\* result is "unhealthy" with details.apiConnected = false; when the probe
\* raises the result is "unhealthy" with details.error set to the message of
\* the error and no apiConnected field; it is "healthy" only when the probe
\* returns true.
C13_HealthCheckNeverRaises ==
    /\ health.call \in {"none", "returned"}
    /\ health.probe = "false" =>
          /\ health.status = "unhealthy"
          /\ health.apiConnected = "false"
          /\ health.error = "<absent>"
    /\ health.probe = "raises" =>
          /\ health.call = "returned"
          /\ health.status = "unhealthy"
          /\ health.apiConnected = "<absent>"
          /\ health.error = "testConnectionError"
    /\ health.status = "healthy" <=> health.probe = "true"

\* a probe has raised while a run of the job was in flight
C13_Witness ==
    /\ health.probe = "raises"
    /\ health.call = "returned"
    /\ jobStatus.isRunning

(***************************************************************************)
(* Properties of the outcome of a run                                      *)
(***************************************************************************)

\* the responses that carry nothing to process
EmptyResponses ==
    {resp \in FetchOutcomes : resp.kind \in {"notSuccess", "noData", "empty"}}

\* C14: a fetch that returns success = false, no data or an empty list is
\* not an error. The course sub-pull then returns totalProcessed = 0 with no
\* row written and no counter touched, and the question-set sub-pull runs
\* next; the question-set sub-pull then returns totalProcessed = 0 with no
\* row written and the run ends counted in successfulExecutions, with
\* lastError unset and failedExecutions unchanged.
C14_EmptyFetchIsNotAnError ==
    [][\A i \in Invocations, resp \in EmptyResponses :
        /\ (pc[i] = "courseFetch" /\ courseFetchSettles(i, resp)) =>
              /\ subPull'.course = Returned(0)
              /\ pc'[i] = "questionSetFetch"
              /\ jobStatus' = jobStatus
              /\ lastCall' = lastCall
              /\ UNCHANGED <<courseTable, questionSetTable>>
        /\ (pc[i] = "questionSetFetch" /\ questionSetFetchSettles(i, resp)) =>
              /\ subPull'.questionSet = Returned(0)
              /\ pc'[i] = "idle"
              /\ lastCall' = "success"
              /\ jobStatus'.successfulExecutions =
                    jobStatus.successfulExecutions + 1
              /\ jobStatus'.failedExecutions = jobStatus.failedExecutions
              /\ jobStatus'.lastError = NoError
              /\ ~jobStatus'.isRunning
              /\ UNCHANGED <<courseTable, questionSetTable>>]_vars

\* after a failed run, a run whose two sub-pulls processed nothing and wrote
\* nothing has ended in success with lastError cleared
C14_Witness ==
    /\ subPull = [course |-> Returned(0), questionSet |-> Returned(0)]
    /\ lastCall = "success"
    /\ jobStatus.failedExecutions = 1
    /\ jobStatus.successfulExecutions = 1
    /\ jobStatus.lastError = NoError
    /\ courseTable = <<>>
    /\ questionSetTable = <<>>

(***************************************************************************)
(* Properties of the errors of the project handlers                        *)
(***************************************************************************)

\* the payload of the last call misses a required field
LastPayloadInvalid ==
    IF lastSync.handler = "handleProjectSyncUpdate"
    THEN \/ lastSync.data.id \in {Absent, NotAString}
         \/ lastSync.data.solutionId = Absent
         \/ ~lastSync.data.hasTasks
    ELSE \/ lastSync.data.projectTemplate = Absent
         \/ lastSync.data.projectTemplateTasks = Absent
         \/ lastSync.data.projectTemplateId \in {Absent, NotAString}

StorageCalls ==
    {"upsertProject", "upsertProjectTasks", "upsertProjectTaskTrackings"}

\* C15: handleProjectCreated and handleProjectSyncUpdate raise for a payload
\* that misses a required field, before any transform or storage call and
\* with the store untouched, an error whose message starts with
\* "Validation failed: "; when they raise for another payload, a storage
\* call was the last call made and its error is raised unchanged, its
\* message without that prefix.
C15_ValidationErrorsDistinct ==
    /\ [](lastSync.handler # "none" =>
            /\ LastPayloadInvalid =>
                  /\ lastSync.status = "raised"
                  /\ lastSync.calls = <<>>
                  /\ Head(lastSync.error.message) = "Validation failed: "
            /\ (lastSync.status = "raised" /\ ~LastPayloadInvalid) =>
                  /\ lastSync.calls # <<>>
                  /\ lastSync.calls[Len(lastSync.calls)] \in StorageCalls
                  /\ lastSync.error = StorageFailure
                  /\ Head(lastSync.error.message) # "Validation failed: ")
    /\ [][(lastSync'.status = "raised" /\ lastSync'.calls = <<>>) =>
            trackingStore' = trackingStore]_vars

\* with rows in the store, a sync payload without solutionId was refused
C15_Witness ==
    /\ lastSync.handler = "handleProjectSyncUpdate"
    /\ lastSync.status = "raised"
    /\ lastSync.data.solutionId = Absent
    /\ Head(lastSync.error.message) = "Validation failed: "
    /\ \E key \in TrackingKeys : trackingStore[key] = 1

\* a step in which a run ends: the guard is released
RunEnds == jobStatus.isRunning /\ ~jobStatus'.isRunning

\* C16: a run whose two sub-pulls both returned ends with
\* successfulExecutions incremented by exactly 1, lastSuccess set to the time
\* of its end and lastError cleared, with failedExecutions and
\* totalExecutions unchanged; and the question-set sub-pull is entered only
\* after the course sub-pull has returned.
C16_SuccessfulRun ==
    /\ [][(RunEnds /\ subPull'.course.state = "returned"
                   /\ subPull'.questionSet.state = "returned") =>
            /\ jobStatus'.successfulExecutions =
                  jobStatus.successfulExecutions + 1
            /\ jobStatus'.lastSuccess = now
            /\ jobStatus'.lastError = NoError
            /\ jobStatus'.failedExecutions = jobStatus.failedExecutions
            /\ jobStatus'.totalExecutions = jobStatus.totalExecutions
            /\ jobStatus'.lastExecution = jobStatus.lastExecution]_vars
    /\ [][jobStatus'.successfulExecutions # jobStatus.successfulExecutions =>
            /\ RunEnds
            /\ subPull'.course.state = "returned"
            /\ subPull'.questionSet.state = "returned"]_vars
    /\ [](/\ \A i \in Invocations :
               pc[i] \in {"questionSetFetch", "questionSetItems"} =>
                  subPull.course.state = "returned"
          /\ subPull.questionSet.state # "notRun" =>
                  subPull.course.state = "returned")

\* the second run has succeeded at a later time than the first, each
\* sub-pull having processed an item
C16_Witness ==
    /\ lastCall = "success"
    /\ jobStatus.successfulExecutions = 2
    /\ jobStatus.lastSuccess = MaxTime
    /\ subPull.course.totalProcessed >= 1
    /\ subPull.questionSet.totalProcessed >= 1

\* the message of the error that ended the sub-pulls in these states
RaisedMessage(pulls) ==
    IF pulls.course.state = "raised" THEN "courseFetchError"
    ELSE "questionSetFetchError"

\* C17: a run in which an exception reaches the top level ends with
\* failedExecutions incremented by exactly 1 and lastError set to the message
\* of that error, with successfulExecutions, lastSuccess and totalExecutions
\* unchanged; failedExecutions changes in no other step.
C17_FailedRun ==
    /\ [][(RunEnds /\ "raised" \in {subPull'.course.state,
                                    subPull'.questionSet.state}) =>
            /\ jobStatus'.failedExecutions = jobStatus.failedExecutions + 1
            /\ jobStatus'.lastError = RaisedMessage(subPull')
            /\ jobStatus'.successfulExecutions =
                  jobStatus.successfulExecutions
            /\ jobStatus'.lastSuccess = jobStatus.lastSuccess
            /\ jobStatus'.totalExecutions = jobStatus.totalExecutions]_vars
    /\ [][jobStatus'.failedExecutions # jobStatus.failedExecutions =>
            /\ RunEnds
            /\ "raised" \in {subPull'.course.state,
                             subPull'.questionSet.state}]_vars

\* after a successful run, a run has failed in its question-set fetch
C17_Witness ==
    /\ lastCall = "failed"
    /\ jobStatus.failedExecutions = 1
    /\ jobStatus.successfulExecutions = 1
    /\ jobStatus.lastSuccess = 0
    /\ jobStatus.lastError = "questionSetFetchError"
    /\ now = MaxTime

\* C18: no call of executeCronJob or triggerManualExecution ends by raising:
\* whatever the fetches, transforms and storage calls do, a call that entered
\* the body leaves it by returning, as a success or as a recorded failure,
\* and it does leave it.
C18_NothingPropagates ==
    /\ [](lastCall \in {"none", "skipped", "success", "failed"})
    /\ [][\A i \in Invocations :
            (pc[i] \in BodyPcs /\ pc'[i] = "idle") =>
                /\ lastCall' \in {"success", "failed"}
                /\ ~jobStatus'.isRunning]_vars
    /\ \A i \in Invocations : (pc[i] \in BodyPcs) ~> (pc[i] = "idle")

\* a run in which no course was saved has ended in the failure of its
\* question-set fetch, and the call has returned
C18_Witness ==
    /\ lastCall = "failed"
    /\ subPull.course = Returned(0)
    /\ subPull.questionSet = Raised
    /\ \A i \in Invocations : pc[i] = "idle"
    /\ jobStatus.totalExecutions = 1

(***************************************************************************)
(* Properties of the removal of rows                                       *)
(***************************************************************************)

DeleteOperations ==
    {"userHandler.handleUserDelete", "userHandler.handleCohortDelete",
     "eventHandler.handleEventDelete",
     "attendanceHandler.handleAttendanceDelete",
     "assessmentHandler.handleAssessmentDelete"}

DeleteTypes ==
    {"USER_DELETED", "COHORT_DELETED", "EVENT_DELETED", "ATTENDANCE_DELETED",
     "ASSESSMENT_DELETED"}

\* C20: a delete operation of a handler is invoked only for a valid envelope
\* whose eventType is USER_DELETED, COHORT_DELETED, EVENT_DELETED,
\* ATTENDANCE_DELETED or ASSESSMENT_DELETED, delivered on the topic of its
\* family, and it is then the delete operation of that family; and no step
\* of the scheduled job removes a row of its tables, whatever it fetches.
C20_RowsRemovedOnlyByDeleteEvents ==
    /\ [](\A k \in 1..Len(dispatch) :
            dispatch[k] \in DeleteOperations =>
                /\ ValidEnvelope
                /\ lastMessage.eventType \in DeleteTypes
                /\ dispatch[k] \in TableOperations)
    /\ [][/\ Len(courseTable') >= Len(courseTable)
          /\ Len(questionSetTable') >= Len(questionSetTable)
          /\ \A identifier \in CourseIds :
                RowsOf(courseTable, identifier) # {} =>
                    RowsOf(courseTable', identifier) # {}
          /\ \A identifier \in QuestionSetIds :
                RowsOf(questionSetTable, identifier) # {} =>
                    RowsOf(questionSetTable', identifier) # {}]_vars

\* the rows saved by a run are still there after a later run that processed
\* nothing
C20_Witness ==
    /\ jobStatus.totalExecutions = 2
    /\ ~jobStatus.isRunning
    /\ subPull = [course |-> Returned(0), questionSet |-> Returned(0)]
    /\ Len(courseTable) = 1
    /\ Len(questionSetTable) = 1

(***************************************************************************)
(* Properties of the project handlers: frame and order of the writes       *)
(***************************************************************************)

\* the last call was handleProjectSyncUpdate with a payload that has every
\* required field and no completed task
LastSyncWithoutCompletedTask ==
    /\ lastSync.handler = "handleProjectSyncUpdate"
    /\ ~LastPayloadInvalid
    /\ CompletedKeys(lastSync.data) = {}

\* C21: for a valid payload without a completed task handleProjectSyncUpdate
\* returns a success result with completedTasks = 0, inserted = 0 and
\* skipped = 0 and totalTasks the length of the list, makes no storage call
\* (so a failing store is not noticed), and leaves the tracking store
\* unchanged.
C21_NoCompletedTaskNoStorage ==
    /\ [](LastSyncWithoutCompletedTask =>
            /\ lastSync.status = "returned"
            /\ lastSync.totalTasks = Len(lastSync.data.tasks)
            /\ lastSync.completedTasks = 0
            /\ lastSync.inserted = 0
            /\ lastSync.skipped = 0
            /\ \A k \in 1..Len(lastSync.calls) :
                  lastSync.calls[k] \notin StorageCalls)
    /\ [][LastSyncWithoutCompletedTask' =>
            trackingStore' = trackingStore]_vars

\* with rows in the store, a payload of two tasks, none completed, returned
\* the zero result
C21_Witness ==
    /\ LastSyncWithoutCompletedTask
    /\ lastSync.status = "returned"
    /\ lastSync.totalTasks = 2
    /\ \E key \in TrackingKeys : trackingStore[key] = 1

\* a step of a caller of the status operations: a call of getJobStatus or
\* healthCheck, or a change made to the object getJobStatus returned
CallerStep == health' # health \/ snapshot' # snapshot

\* C22: the status operations are read-only.  A call of getJobStatus or of
\* healthCheck leaves every field of jobStatus as it was, only steps of the
\* job change jobStatus, and the object getJobStatus returned is a snapshot
\* by value: a later step of the job does not change it, and a change the
\* caller makes to it does not change jobStatus.
C22_StatusReadOnly ==
    /\ [][CallerStep => jobStatus' = jobStatus]_vars
    /\ [][jobStatus' # jobStatus => snapshot' = snapshot]_vars

\* C22 without the Date objects: what holds of every step but a change made
\* in place to a Date the snapshot holds
C22_FieldsCopiedByValue ==
    [][(\A field \in DateFields : ~callerSetsDate(field)) =>
          /\ CallerStep => jobStatus' = jobStatus
          /\ jobStatus' # jobStatus => snapshot' = snapshot]_vars

\* the job reads lastExecution from the clock, which never goes back; here
\* its lastExecution lies in the future, written through the snapshot
C22_Witness ==
    /\ snapshot.taken
    /\ SameDate("lastExecution")
    /\ jobStatus.lastExecution = snapshot.value.lastExecution
    /\ jobStatus.lastExecution > now

\* C23: in every reachable state of the job, totalExecutions is
\* successfulExecutions + failedExecutions, plus one while a run is in
\* progress: a started run is counted once at its start and in exactly one
\* of the two other counters when it ends, a skipped trigger nowhere.
C23_CountersBalance ==
    jobStatus.totalExecutions =
        jobStatus.successfulExecutions + jobStatus.failedExecutions
        + (IF jobStatus.isRunning THEN 1 ELSE 0)

C23_Witness ==
    /\ jobStatus.isRunning
    /\ jobStatus.failedExecutions = 1
    /\ jobStatus.totalExecutions = 2
    /\ lastCall = "skipped"

\* the sub-pulls of the latest run to end: one of them raised
LastRunFailed(pulls) ==
    "raised" \in {pulls.course.state, pulls.questionSet.state}

\* C24: whenever the job is idle, lastError is set if and only if the run
\* that ended last failed.  A run that succeeds clears the lastError an
\* earlier failed run left, a run that fails leaves lastSuccess as it was,
\* and lastSuccess changes only at the end of a successful run, to the time
\* of that end.
C24_LastErrorTracksLastRun ==
    /\ [](~jobStatus.isRunning =>
            (jobStatus.lastError # NoError <=> LastRunFailed(subPull)))
    /\ [][(RunEnds /\ ~LastRunFailed(subPull')) =>
            jobStatus'.lastError = NoError]_vars
    /\ [][(RunEnds /\ LastRunFailed(subPull')) =>
            jobStatus'.lastSuccess = jobStatus.lastSuccess]_vars
    /\ [][jobStatus'.lastSuccess # jobStatus.lastSuccess =>
            /\ RunEnds
            /\ ~LastRunFailed(subPull')
            /\ jobStatus'.lastSuccess = now]_vars

\* a run has failed at time 0 and a later run has succeeded: the job is idle
\* and the error of the first run is gone
C24_Witness ==
    /\ ~jobStatus.isRunning
    /\ jobStatus.failedExecutions = 1
    /\ jobStatus.successfulExecutions = 1
    /\ jobStatus.lastError = NoError
    /\ jobStatus.lastSuccess = MaxTime
    /\ lastCall = "success"

\* the latest delivery was a call of handleProjectCreated that raised in a
\* call made after upsertProject had returned
RaisedAfterProjectUpsert(sync) ==
    /\ sync.handler = "handleProjectCreated"
    /\ sync.status = "raised"
    /\ sync.calls # <<>>
    /\ sync.calls[Len(sync.calls)] \in TaskCalls

\* C25: handleProjectCreated writes the project before its tasks and takes
\* nothing back.  It calls upsertProject before upsertProjectTasks; when the
\* transform or the upsert of the tasks raises after upsertProject has
\* returned, the handler raises that error as it is, the Project row of
\* this call is in the store and no ProjectTask row was written; rows of
\* tasks exist only for projects that have a row.
C25_NoRollback ==
    /\ [][RaisedAfterProjectUpsert(lastSync') =>
            /\ lastSync'.error \in {TransformFailure, StorageFailure}
            /\ lastSync'.data.projectTemplateId \in projectTable'
            /\ projectTaskTable' = projectTaskTable]_vars
    /\ [](lastSync.handler = "handleProjectCreated" =>
            \A k \in 1..Len(lastSync.calls) :
                lastSync.calls[k] = "upsertProjectTasks" =>
                    \E j \in 1..(k - 1) : lastSync.calls[j] = "upsertProject")
    /\ [](projectTaskTable \subseteq projectTable)

\* a project without its tasks: the upsert of the tasks has raised and the
\* store holds the Project row of that call and no ProjectTask row for it
C25_Witness ==
    /\ RaisedAfterProjectUpsert(lastSync)
    /\ lastSync.calls[Len(lastSync.calls)] = "upsertProjectTasks"
    /\ lastSync.error = StorageFailure
    /\ lastSync.data.projectTemplateId \in projectTable
    /\ lastSync.data.projectTemplateId \notin projectTaskTable

====
